---- MODULE Spec2Model ----
(***************************************************************************)
(* Model of compare_retrospectives (src/app.py, lines 17-95): the          *)
(* aggregation of retrospective CSV exports into a filtered, sorted list   *)
(* of (feedback, task_id, votes) and a per-file processing log.            *)
(*                                                                         *)
(* A file is [name, decodable, lines]; lines is the text split on "\n",    *)
(* each line the sequence of its comma-separated cells (the empty line is  *)
(* << >>).  Cells are strings over the alphabet listed below; the          *)
(* substring tests, the numeric parse and the missing-value test of the    *)
(* code are tables over that alphabet.                                     *)
(***************************************************************************)
EXTENDS Integers, Sequences, FiniteSets, TLC

VARIABLES
    file_objects,        \* the batch passed to compare_retrospectives
    idx,                 \* number of files the for loop has consumed
    feedback_counts,     \* dict in insertion order: sequence of [feedback, votes]
    feedback_tasks,      \* dict: function from feedback key to work item id
    processing_results,  \* the outcome log
    min_votes,           \* filter bounds, read only by the final filter
    max_votes,
    result,              \* the returned list
    pc                   \* "loop" | "done"

vars == <<file_objects, idx, feedback_counts, feedback_tasks,
          processing_results, min_votes, max_votes, result, pc>>

(***************************************************************************)
(* Bounds of the model.                                                    *)
(***************************************************************************)
MaxFiles == 3
MaxBound == 2

(***************************************************************************)
(* Values.                                                                 *)
(***************************************************************************)
None == <<"None">>
Str(s) == <<"str", s>>
Num(n) == <<"num", n>>

\* pandas' default na_values (the ones in the alphabet): cells read as NaN.
NAValues == {"", "N/A"}
isna(c) == c \in NAValues

\* Numerals of the alphabet and the number each parses to.
NumOf == ("0" :> 0) @@ ("1" :> 1) @@ ("2" :> 2) @@ ("3" :> 3) @@
         ("11" :> 11) @@ ("12" :> 12) @@ ("13" :> 13)
IsNumeric(c) == c \in DOMAIN NumOf

\* "...Type,Description,Votes..." as a substring of a line: a cell ending in
\* "Type", the cell "Description", a cell starting with "Votes".
EndsWithType(c) == c \in {"Type", "Work Item Type"}
StartsWithVotes(c) == c \in {"Votes", "VotesCount"}

PrimaryMarkerIn(line) ==
    \E i \in 1..(Len(line) - 2) :
        /\ EndsWithType(line[i])
        /\ line[i + 1] = "Description"
        /\ StartsWithVotes(line[i + 2])

\* "Feedback Description,Work Item Title,Work Item Type,Work Item Id," as a
\* substring: the four cells in a row and a comma after the fourth, that is,
\* a fifth cell (possibly empty) on the line.
WorkItemsMarkerIn(line) ==
    \E i \in 1..(Len(line) - 4) :
        /\ line[i] = "Feedback Description"
        /\ line[i + 1] = "Work Item Title"
        /\ line[i + 2] = "Work Item Type"
        /\ line[i + 3] = "Work Item Id"

\* next((i for i, line in enumerate(lines) if marker in line), None), with
\* lines numbered from 1 and 0 standing for None.
HeaderIndex(lines) ==
    IF \E i \in 1..Len(lines) : PrimaryMarkerIn(lines[i])
    THEN CHOOSE i \in 1..Len(lines) :
            /\ PrimaryMarkerIn(lines[i])
            /\ \A j \in 1..(i - 1) : ~PrimaryMarkerIn(lines[j])
    ELSE 0

WorkItemsHeader(lines) ==
    IF \E i \in 1..Len(lines) : WorkItemsMarkerIn(lines[i])
    THEN CHOOSE i \in 1..Len(lines) :
            /\ WorkItemsMarkerIn(lines[i])
            /\ \A j \in 1..(i - 1) : ~WorkItemsMarkerIn(lines[j])
    ELSE 0

(***************************************************************************)
(* pd.read_csv(io.StringIO(content), skiprows=h): the lines before line h  *)
(* are skipped, blank lines are skipped, the first line left is the        *)
(* header.  The first data row may have any number of fields (more than    *)
(* the header: the extra leading fields become the index); every later     *)
(* row with more fields than that width raises ParserError; shorter rows   *)
(* are padded with missing cells.                                          *)
(***************************************************************************)
\* A line that is not empty (the empty text splits into no cell, or one empty cell).
NonBlank(line) == line # << >> /\ line # <<"">>

Max(a, b) == IF a >= b THEN a ELSE b

read_csv(lines, h) ==
    LET body   == SelectSeq(SubSeq(lines, h, Len(lines)), NonBlank)
        header == body[1]
        rows   == Tail(body)
        width  == IF rows = << >> THEN Len(header)
                  ELSE Max(Len(header), Len(rows[1]))
    IN  [ error   |-> \E k \in 2..Len(rows) : Len(rows[k]) > width,
          columns |-> header,
          leading |-> width - Len(header),
          rows    |-> rows ]

HasColumn(df, name) == \E i \in 1..Len(df.columns) : df.columns[i] = name

\* Position of the column called name (the first one: later duplicates are
\* renamed name.1, name.2, ...).
ColumnIndex(df, name) ==
    CHOOSE i \in 1..Len(df.columns) :
        /\ df.columns[i] = name
        /\ \A j \in 1..(i - 1) : df.columns[j] # name

\* The text of row r's cell in column name; a padded cell is empty.
CellText(df, r, name) ==
    LET p == df.leading + ColumnIndex(df, name)
    IN  IF p <= Len(df.rows[r]) THEN df.rows[r][p] ELSE ""

\* Column type inference: a column whose present cells are all numerals is a
\* numeric column, any other column keeps its cells as strings.
NumericColumn(df, name) ==
    \A r \in 1..Len(df.rows) :
        isna(CellText(df, r, name)) \/ IsNumeric(CellText(df, r, name))

\* row[name] as iterrows yields it (for a cell that is not NaN).
CellValue(df, r, name) ==
    LET c == CellText(df, r, name)
    IN  IF NumericColumn(df, name) THEN Num(NumOf[c]) ELSE Str(c)

\* pd.to_numeric(errors='coerce').fillna(0).astype(int) of a present cell.
to_numeric(c) == IF IsNumeric(c) THEN NumOf[c] ELSE 0

(***************************************************************************)
(* The body of the for loop, one file at a time.                           *)
(***************************************************************************)
Seen(counts, feedback) ==
    \E i \in 1..Len(counts) : counts[i].feedback = feedback

\* AddVotes with `=` where line 62 has `+=`.
AddVotesOverwrite(counts, feedback, votes) ==
    IF Seen(counts, feedback)
    THEN [i \in 1..Len(counts) |->
            IF counts[i].feedback = feedback
            THEN [counts[i] EXCEPT !.votes = votes]
            ELSE counts[i]]
    ELSE Append(counts, [feedback |-> feedback, votes |-> votes])

\* Lines 61-64: add to the running total, or create the entry.
AddVotes(counts, feedback, votes) ==
    IF Seen(counts, feedback)
    THEN [i \in 1..Len(counts) |->
            IF counts[i].feedback = feedback
            THEN [counts[i] EXCEPT !.votes = @ + votes]
            ELSE counts[i]]
    ELSE Append(counts, [feedback |-> feedback, votes |-> votes])

\* Kept with the dropna applied to Description alone (a missing Votes cell
\* would then be zero-filled by line 55).
KeptIfDescribed(df, r) == ~isna(CellText(df, r, "Description"))

\* Line 54: df[['Description', 'Votes']].dropna() keeps row r.
Kept(df, r) ==
    /\ ~isna(CellText(df, r, "Description"))
    /\ ~isna(CellText(df, r, "Votes"))

\* Line 55: the Votes value of a kept row.
VotesOf(df, r) == to_numeric(CellText(df, r, "Votes"))

\* Lines 57-64 for rows r..Len(df.rows).
RECURSIVE AccumulateFrom(_, _, _)
AccumulateFrom(counts, df, r) ==
    IF r > Len(df.rows) THEN counts
    ELSE AccumulateFrom(
            IF Kept(df, r)
            THEN AddVotes(counts, CellValue(df, r, "Description"), VotesOf(df, r))
            ELSE counts,
            df, r + 1)

\* SetTask that keeps the id already recorded (first write wins).
SetTaskKeepFirst(tasks, feedback_desc, work_item_id) ==
    [k \in (DOMAIN tasks) \cup {feedback_desc} |->
        IF k \in DOMAIN tasks THEN tasks[k] ELSE work_item_id]

\* Line 78: feedback_tasks[feedback_desc] = work_item_id.
SetTask(tasks, feedback_desc, work_item_id) ==
    [k \in (DOMAIN tasks) \cup {feedback_desc} |->
        IF k = feedback_desc THEN work_item_id ELSE tasks[k]]

\* Line 77: both values of row r are present.
Assigns(wdf, r) ==
    /\ ~isna(CellText(wdf, r, "Feedback Description"))
    /\ ~isna(CellText(wdf, r, "Work Item Id"))

\* Lines 74-78 for rows r..Len(wdf.rows).
RECURSIVE AssignFrom(_, _, _)
AssignFrom(tasks, wdf, r) ==
    IF r > Len(wdf.rows) THEN tasks
    ELSE AssignFrom(
            IF Assigns(wdf, r)
            THEN SetTask(tasks, CellValue(wdf, r, "Feedback Description"),
                         CellValue(wdf, r, "Work Item Id"))
            ELSE tasks,
            wdf, r + 1)

Outcome(kind, f, detail) == [kind |-> kind, name |-> f.name, detail |-> detail]

\* What one iteration leaves: the two dictionaries and the entries it
\* appended to processing_results.
Step(counts, tasks, log) ==
    [counts |-> counts, tasks |-> tasks, log |-> log]

\* An except clause that swallows the failure without logging it.
FailedSilently(counts, tasks, f, detail) == Step(counts, tasks, << >>)

\* Lines 82-83: the except clause, entered with the dictionaries as the
\* statements before the failure left them.
Failed(counts, tasks, f, detail) ==
    Step(counts, tasks, <<Outcome("error", f, detail)>>)

\* Line 80.
Succeeded(counts, tasks, f) ==
    Step(counts, tasks, <<Outcome("success", f, "")>>)

\* Lines 66-80: the Work Items section and the success entry.
WorkItems(counts, tasks, f) ==
    LET work_items_header == WorkItemsHeader(f.lines)
        work_items_df     == read_csv(f.lines, work_items_header)
    IN  IF work_items_header = 0
        THEN Succeeded(counts, tasks, f)
        ELSE IF work_items_df.error
        THEN Failed(counts, tasks, f, "ParserError")
        ELSE IF /\ HasColumn(work_items_df, "Feedback Description")
                /\ HasColumn(work_items_df, "Work Item Id")
        THEN Succeeded(counts, AssignFrom(tasks, work_items_df, 1), f)
        ELSE Succeeded(counts, tasks, f)

\* Skip without the continue's effect on the Work Items section: the
\* section is still read.
SkipThenWorkItems(counts, tasks, f, detail) ==
    Step(counts, WorkItems(counts, tasks, f).tasks,
         <<Outcome("warning", f, detail)>>)

\* Lines 41-43 and 49-51: the warning and the continue.
Skip(counts, tasks, f, detail) ==
    Step(counts, tasks, <<Outcome("warning", f, detail)>>)

\* LoopBody made atomic: both tables are read before either dictionary is
\* touched, so a failure in the Work Items section leaves no votes behind.
LoopBodyAtomic(counts, tasks, f) ==
    IF ~f.decodable
    THEN Failed(counts, tasks, f, "UnicodeDecodeError")
    ELSE LET header_index == HeaderIndex(f.lines)
             df           == read_csv(f.lines, header_index)
         IN  IF header_index = 0
             THEN Skip(counts, tasks, f, "Required columns not found.")
             ELSE IF df.error
             THEN Failed(counts, tasks, f, "ParserError")
             ELSE IF ~HasColumn(df, "Description") \/ ~HasColumn(df, "Votes")
             THEN Skip(counts, tasks, f,
                       "Required columns missing after header detection.")
             ELSE IF /\ WorkItemsHeader(f.lines) # 0
                     /\ read_csv(f.lines, WorkItemsHeader(f.lines)).error
             THEN Failed(counts, tasks, f, "ParserError")
             ELSE WorkItems(AccumulateFrom(counts, df, 1), tasks, f)

\* Lines 34-83: one iteration of the loop on file f.
LoopBody(counts, tasks, f) ==
    IF ~f.decodable
    THEN Failed(counts, tasks, f, "UnicodeDecodeError")
    ELSE LET header_index == HeaderIndex(f.lines)
             df           == read_csv(f.lines, header_index)
         IN  IF header_index = 0
             THEN Skip(counts, tasks, f, "Required columns not found.")
             ELSE IF df.error
             THEN Failed(counts, tasks, f, "ParserError")
             ELSE IF ~HasColumn(df, "Description") \/ ~HasColumn(df, "Votes")
             THEN Skip(counts, tasks, f,
                       "Required columns missing after header detection.")
             ELSE WorkItems(AccumulateFrom(counts, df, 1), tasks, f)

(***************************************************************************)
(* After the loop: the sentinel, the filter and the sort (lines 85-95).    *)
(***************************************************************************)
Sentinel == <<Str("No valid feedback found."), None, 0>>

\* feedback_tasks.get(feedback, None)
TaskOf(tasks, feedback) ==
    IF feedback \in DOMAIN tasks THEN tasks[feedback] ELSE None

\* InRange with the upper end excluded.
InRangeExclusive(votes, lo, hi) == lo <= votes /\ votes < hi

\* min_votes <= votes <= max_votes (line 90).
InRange(votes, lo, hi) == lo <= votes /\ votes <= hi

\* Lines 88-90: the list comprehension over feedback_counts.items().
RECURSIVE Filtered(_, _, _, _)
Filtered(counts, tasks, lo, hi) ==
    IF counts = << >> THEN << >>
    ELSE LET e    == Head(counts)
             rest == Filtered(Tail(counts), tasks, lo, hi)
         IN  IF InRange(e.votes, lo, hi)
             THEN <<<<e.feedback, TaskOf(tasks, e.feedback), e.votes>>>> \o rest
             ELSE rest

\* InsertDesc that puts x before the elements of equal key (what
\* sorting ascending and reversing would do).
RECURSIVE InsertDescBeforeEqual(_, _)
InsertDescBeforeEqual(sorted, x) ==
    IF sorted = << >> THEN <<x>>
    ELSE IF Head(sorted)[3] > x[3]
    THEN <<Head(sorted)>> \o InsertDescBeforeEqual(Tail(sorted), x)
    ELSE <<x>> \o sorted

\* list.sort(key=lambda x: x[2], reverse=True): x goes after every element
\* whose key is >= its own, so equal keys keep their order.
RECURSIVE InsertDesc(_, _)
InsertDesc(sorted, x) ==
    IF sorted = << >> THEN <<x>>
    ELSE IF Head(sorted)[3] >= x[3]
    THEN <<Head(sorted)>> \o InsertDesc(Tail(sorted), x)
    ELSE <<x>> \o sorted

RECURSIVE SortDesc(_)
SortDesc(list) ==
    IF list = << >> THEN << >>
    ELSE InsertDesc(SortDesc(SubSeq(list, 1, Len(list) - 1)), list[Len(list)])

\* FinalResult without the sentinel of lines 85-86.
FinalResultNoSentinel(counts, tasks, lo, hi) ==
    SortDesc(Filtered(counts, tasks, lo, hi))

\* Lines 85-95.
FinalResult(counts, tasks, lo, hi) ==
    IF counts = << >> THEN <<Sentinel>>
    ELSE SortDesc(Filtered(counts, tasks, lo, hi))

\* compare_retrospectives(files, lo, hi), lines 29-95, as a function.
RECURSIVE Loop(_, _, _, _)
Loop(counts, tasks, log, files) ==
    IF files = << >>
    THEN [counts |-> counts, tasks |-> tasks, log |-> log]
    ELSE LET s == LoopBody(counts, tasks, Head(files))
         IN  Loop(s.counts, s.tasks, log \o s.log, Tail(files))

compare_retrospectives(files, lo, hi) ==
    LET end == Loop(<< >>, << >>, << >>, files)
    IN  <<FinalResult(end.counts, end.tasks, lo, hi), end.log>>

(***************************************************************************)
(* The files of the model.  Each is a retrospective export as the tool     *)
(* receives it; the comments give the text.                                *)
(***************************************************************************)
PrimaryHeader == <<"Type", "Description", "Votes">>
WidePrimaryHeader ==
    <<"Type", "Description", "Votes", "Created", "Author", "Column">>
WorkItemsHeaderLine ==
    <<"Feedback Description", "Work Item Title", "Work Item Type",
      "Work Item Id", "">>

File(name, lines) == [name |-> name, decodable |-> TRUE, lines |-> lines]

\* Type,Description,Votes / Went Well,X,1
FileA == File("a.csv", <<PrimaryHeader, <<"Went Well", "X", "1">>>>)

\* Type,Description,Votes / Went Well,Y,2 / Needs Improvement,X,1 / Went Well,Y,1
FileB == File("b.csv",
    <<PrimaryHeader, <<"Went Well", "Y", "2">>,
      <<"Needs Improvement", "X", "1">>, <<"Went Well", "Y", "1">>>>)

\* A title, a blank line, then a table with a non-numeric vote, an empty
\* description, an empty vote, an N/A vote and a row cut short.
FileC == File("c.csv",
    <<<<"Sprint 7">>, << >>, PrimaryHeader,
      <<"Went Well", "Y", "many">>, <<"Went Well", "", "2">>,
      <<"Went Well", "X", "">>, <<"Went Well", "X", "N/A">>,
      <<"Went Well", "X">>, <<"Went Well", "Z", "3">>>>)

\* A title and only a Work Items section: no line has the primary marker.
FileE == File("e.csv",
    <<<<"Sprint 7">>, WorkItemsHeaderLine, <<"X", "Fix", "Task", "11", "">>>>)

\* Type,Description,VotesCount: the marker is found, the Votes column is
\* not.  A Work Items section precedes the table.
FileF == File("f.csv",
    <<WorkItemsHeaderLine, <<"Y", "Doc", "Task", "12", "">>,
      <<"Type", "Description", "VotesCount">>, <<"Went Well", "X", "2">>>>)

\* Bytes that are not UTF-8.
FileG == [name |-> "g.csv", decodable |-> FALSE, lines |-> << >>]

\* The Work Items section first, the table after it.
FileI == File("i.csv",
    <<WorkItemsHeaderLine, <<"X", "Fix", "Task", "11", "">>,
      <<"Y", "Doc", "Task", "">>, PrimaryHeader,
      <<"Went Well", "X", "1">>, <<"Went Well", "Y", "2">>>>)

\* Two Work Items rows for X, then the table.
FileJ == File("j.csv",
    <<WorkItemsHeaderLine, <<"X", "Fix", "Task", "12", "">>,
      <<"X", "Fix again", "Task", "13", "">>, <<"", "Doc", "Task", "11", "">>,
      PrimaryHeader, <<"Went Well", "Y", "2">>>>)

\* A six-column table followed by the Work Items section.
FileK == File("k.csv",
    <<WidePrimaryHeader, <<"Went Well", "X", "2", "Mon", "ann", "1">>,
      << >>, WorkItemsHeaderLine, <<"X", "Fix", "Task", "12", "">>>>)

\* The Work Items section first, then a six-column table: the second
\* read_csv meets a six-field line in a five-column table.
FileL == File("l.csv",
    <<WorkItemsHeaderLine, <<"Y", "Doc", "Task", "13", "">>,
      WidePrimaryHeader, <<"Went Well", "X", "1", "Mon", "ann", "1">>>>)

\* A row with a comma too many (after the first data row).
FileN == File("n.csv",
    <<PrimaryHeader, <<"Went Well", "X", "1">>,
      <<"Went Well", "Y", "really", "2">>>>)

Catalog == {FileA, FileB, FileC, FileE, FileF, FileG,
            FileI, FileJ, FileK, FileL, FileN}

RECURSIVE SeqsUpTo(_, _)
SeqsUpTo(S, n) ==
    IF n = 0 THEN {<< >>}
    ELSE LET shorter == SeqsUpTo(S, n - 1)
         IN  shorter \cup {Append(q, x) : q \in shorter, x \in S}

Batches == SeqsUpTo(Catalog, MaxFiles)
Bounds == 0..MaxBound

(***************************************************************************)
(* The state machine: the call, the loop, the return.                      *)
(***************************************************************************)
Unread == "unread"

Init ==
    /\ file_objects \in Batches
    /\ idx = 0
    /\ feedback_counts = << >>
    /\ feedback_tasks = << >>
    /\ processing_results = << >>
    /\ min_votes = Unread
    /\ max_votes = Unread
    /\ result = << >>
    /\ pc = "loop"

\* One iteration of `for uploaded_file in file_objects` (lines 33-83).
ProcessFile ==
    /\ pc = "loop"
    /\ idx < Len(file_objects)
    /\ LET s == LoopBody(feedback_counts, feedback_tasks, file_objects[idx + 1])
       IN  /\ feedback_counts' = s.counts
           /\ feedback_tasks' = s.tasks
           /\ processing_results' = processing_results \o s.log
    /\ idx' = idx + 1
    /\ UNCHANGED <<file_objects, min_votes, max_votes, result, pc>>

\* Lines 85-95, with the bounds the caller passed.
Return(lo, hi) ==
    /\ pc = "loop"
    /\ idx = Len(file_objects)
    /\ min_votes' = lo
    /\ max_votes' = hi
    /\ result' = FinalResult(feedback_counts, feedback_tasks, lo, hi)
    /\ pc' = "done"
    /\ UNCHANGED <<file_objects, idx, feedback_counts, feedback_tasks,
                   processing_results>>

Next ==
    \/ ProcessFile
    \/ \E lo \in Bounds, hi \in Bounds : Return(lo, hi)

Spec == Init /\ [][Next]_vars

(***************************************************************************)
(* Vocabulary of the properties.                                           *)
(***************************************************************************)
\* The files the loop has consumed.
Processed == SubSeq(file_objects, 1, idx)

\* The descriptions with an entry in feedback_counts, and their totals.
Accumulated == {feedback_counts[i].feedback : i \in 1..Len(feedback_counts)}

Total(counts, d) ==
    IF Seen(counts, d)
    THEN counts[CHOOSE i \in 1..Len(counts) : counts[i].feedback = d].votes
    ELSE 0

TotalsOf(counts) == {<<counts[i].feedback, counts[i].votes>> : i \in 1..Len(counts)}

\* The text of f has a line containing "Type,Description,Votes".
HasPrimaryMarker(f) == f.decodable /\ HeaderIndex(f.lines) # 0

\* The table read from the header line on.
PrimaryTable(f) == read_csv(f.lines, HeaderIndex(f.lines))

HasBothColumns(f) ==
    /\ HasColumn(PrimaryTable(f), "Description")
    /\ HasColumn(PrimaryTable(f), "Votes")

\* The primary-table steps of f complete: marker found, table read, both
\* columns present.
PrimaryRead(f) ==
    /\ HasPrimaryMarker(f)
    /\ ~PrimaryTable(f).error
    /\ HasBothColumns(f)

\* Sum of the integer Votes of the rows r.. of df that carry description d
\* and have both cells present.
RECURSIVE RowSum(_, _, _)
RowSum(df, d, r) ==
    IF r > Len(df.rows) THEN 0
    ELSE (IF Kept(df, r) /\ CellValue(df, r, "Description") = d
          THEN VotesOf(df, r) ELSE 0) + RowSum(df, d, r + 1)

FileSum(f, d) == RowSum(PrimaryTable(f), d, 1)

\* Descriptions of the rows of f's primary table with both cells present.
KeptDescriptions(f) ==
    LET df == PrimaryTable(f)
    IN  {CellValue(df, r, "Description") : r \in {k \in 1..Len(df.rows) : Kept(df, k)}}

\* Sum over the files of the batch that have the marker (and the columns).
RECURSIVE MarkerSum(_, _)
MarkerSum(files, d) ==
    IF files = << >> THEN 0
    ELSE (IF HasPrimaryMarker(Head(files)) /\ HasBothColumns(Head(files))
          THEN FileSum(Head(files), d) ELSE 0) + MarkerSum(Tail(files), d)

\* Sum over the files of the batch whose primary table was read.
RECURSIVE ReadSum(_, _)
ReadSum(files, d) ==
    IF files = << >> THEN 0
    ELSE (IF PrimaryRead(Head(files)) THEN FileSum(Head(files), d) ELSE 0)
         + ReadSum(Tail(files), d)

\* The batch with its i-th and j-th files exchanged.
Swapped(files, i, j) ==
    [k \in 1..Len(files) |->
        IF k = i THEN files[j] ELSE IF k = j THEN files[i] ELSE files[k]]

LoopEnd == pc = "loop" /\ idx = Len(file_objects)

(***************************************************************************)
(* C1 as stated: the total accumulated for a description is the sum of the *)
(* Votes of the rows carrying it over every processed file that has the    *)
(* primary marker.                                                         *)
(***************************************************************************)
C1_TotalsOverMarkedFiles ==
    pc = "loop" =>
        \A d \in Accumulated :
            Total(feedback_counts, d) = MarkerSum(Processed, d)

(***************************************************************************)
(* C1, amended: the total accumulated for a description is the sum of the  *)
(* integer Votes (non-numeric counted as 0) of the rows carrying it over   *)
(* every processed file whose primary table was read (marker found,        *)
(* read_csv did not fail, both columns present); the accumulated           *)
(* descriptions are exactly those of such rows; and exchanging any two     *)
(* files of the batch yields the same totals (every permutation is a       *)
(* product of exchanges, and the batch ranges over all batches).           *)
(***************************************************************************)
C1_TotalsOverReadFiles ==
    /\ pc = "loop" =>
            /\ \A d \in Accumulated :
                    Total(feedback_counts, d) = ReadSum(Processed, d)
            /\ Accumulated =
                    UNION {KeptDescriptions(Processed[i]) :
                                i \in {k \in 1..idx : PrimaryRead(Processed[k])}}
    /\ LoopEnd =>
            \A i \in 1..Len(file_objects), j \in 1..Len(file_objects) :
                i < j =>
                TotalsOf(Loop(<< >>, << >>, << >>,
                              Swapped(file_objects, i, j)).counts)
                    = TotalsOf(feedback_counts)

\* A description fed by two processed files, in a batch that also holds a
\* file with the marker whose read_csv failed.
C1_Witness ==
    /\ LoopEnd
    /\ \E d \in Accumulated :
            Cardinality({i \in 1..idx : /\ PrimaryRead(Processed[i])
                                        /\ FileSum(Processed[i], d) > 0}) >= 2
    /\ \E i \in 1..idx : /\ HasPrimaryMarker(Processed[i])
                         /\ PrimaryTable(Processed[i]).error

Returned == pc = "done"

\* The descriptions of the returned records.
ResultDescriptions == {result[i][1] : i \in 1..Len(result)}

(***************************************************************************)
(* C2: when at least one entry was accumulated, the returned list holds    *)
(* exactly the accumulated descriptions whose total t satisfies            *)
(* min_votes <= t <= max_votes, each once and with its total (so           *)
(* min_votes = max_votes = v returns the descriptions of total v, and a    *)
(* range that holds no total returns the empty list).                      *)
(***************************************************************************)
C2_ExactlyInRange ==
    (Returned /\ feedback_counts # << >>) =>
        /\ ResultDescriptions =
                {d \in Accumulated :
                    /\ min_votes <= Total(feedback_counts, d)
                    /\ Total(feedback_counts, d) <= max_votes}
        /\ \A i, j \in 1..Len(result) : result[i][1] = result[j][1] => i = j
        /\ \A i \in 1..Len(result) :
                result[i][3] = Total(feedback_counts, result[i][1])

\* min_votes = max_votes, with a total below, a total on and a total above.
C2_Witness ==
    /\ Returned
    /\ min_votes = max_votes
    /\ result # << >>
    /\ \E d \in Accumulated : Total(feedback_counts, d) < min_votes
    /\ \E d \in Accumulated : Total(feedback_counts, d) > max_votes
    /\ \E d \in Accumulated : Total(feedback_counts, d) = max_votes

(***************************************************************************)
(* C3: the returned list is sorted by votes, non-increasing, and two       *)
(* records of equal votes come in the order in which their descriptions    *)
(* were first met in the rows of the files, taken in input order.          *)
(***************************************************************************)
\* Descriptions of the rows r.. of df with both cells present, in row order.
RECURSIVE KeptFrom(_, _)
KeptFrom(df, r) ==
    IF r > Len(df.rows) THEN << >>
    ELSE (IF Kept(df, r) THEN <<CellValue(df, r, "Description")>> ELSE << >>)
         \o KeptFrom(df, r + 1)

\* The descriptions met while processing files, in order.
RECURSIVE Encounters(_)
Encounters(files) ==
    IF files = << >> THEN << >>
    ELSE (IF PrimaryRead(Head(files))
          THEN KeptFrom(PrimaryTable(Head(files)), 1) ELSE << >>)
         \o Encounters(Tail(files))

FirstPos(seq, d) ==
    CHOOSE i \in 1..Len(seq) : seq[i] = d /\ \A j \in 1..(i - 1) : seq[j] # d

C3_SortedStable ==
    Returned =>
        LET met == Encounters(file_objects)
        IN  \A i, j \in 1..Len(result) :
                i < j =>
                    /\ result[i][3] >= result[j][3]
                    /\ result[i][3] = result[j][3] =>
                            FirstPos(met, result[i][1]) < FirstPos(met, result[j][1])

\* A tie, and a record that the sort moved ahead of one met before it.
C3_Witness ==
    /\ Returned
    /\ feedback_counts # << >>
    /\ LET met == Encounters(file_objects)
       IN  /\ \E i, j \in 1..Len(result) :
                    i < j /\ result[i][3] = result[j][3]
           /\ \E i, j \in 1..Len(result) :
                    /\ i < j
                    /\ result[i][3] > result[j][3]
                    /\ FirstPos(met, result[i][1]) > FirstPos(met, result[j][1])

(***************************************************************************)
(* C4: when no entry was accumulated, the returned list is exactly         *)
(* [("No valid feedback found.", None, 0)], whatever the bounds.           *)
(***************************************************************************)
C4_Sentinel ==
    (Returned /\ feedback_counts = << >>) =>
        result = <<<<Str("No valid feedback found."), None, 0>>>>

\* Nothing accumulated from a batch of skipped and failed files, returned
\* under bounds whose range does not hold 0.
C4_Witness ==
    /\ Returned
    /\ feedback_counts = << >>
    /\ min_votes > 0
    /\ \E i \in 1..Len(processing_results) : processing_results[i].kind = "warning"
    /\ \E i \in 1..Len(processing_results) : processing_results[i].kind = "error"
    /\ result = <<Sentinel>>

(***************************************************************************)
(* C5: a file whose text has no line containing "Type,Description,Votes"   *)
(* gets exactly one warning entry naming it and changes neither            *)
(* dictionary: the dictionaries, and the returned list, are those of the   *)
(* batch with such files removed.                                          *)
(***************************************************************************)
NoMarker(f) == f.decodable /\ HeaderIndex(f.lines) = 0
Marked(f) == ~NoMarker(f)

C5_UnmarkedFileIsSkipped ==
    (\E i \in 1..idx : NoMarker(Processed[i])) =>
        /\ pc = "loop" =>
            /\ \A f \in {Processed[i] : i \in 1..idx} :
                    NoMarker(f) =>
                        Cardinality({i \in 1..Len(processing_results) :
                                        processing_results[i].name = f.name})
                            = Cardinality({i \in 1..idx : Processed[i] = f})
            /\ \A i \in 1..idx :
                    NoMarker(Processed[i]) =>
                        /\ i <= Len(processing_results)
                        /\ processing_results[i].kind = "warning"
                        /\ processing_results[i].name = Processed[i].name
            /\ LET without == Loop(<< >>, << >>, << >>,
                                   SelectSeq(Processed, Marked))
               IN  /\ feedback_counts = without.counts
                   /\ feedback_tasks = without.tasks
        /\ Returned =>
            result = compare_retrospectives(SelectSeq(file_objects, Marked),
                                            min_votes, max_votes)[1]

\* A returned batch that held a file with a Work Items section and no
\* primary marker, next to files that set votes and task ids.
C5_Witness ==
    /\ Returned
    /\ \E i \in 1..idx : /\ NoMarker(Processed[i])
                         /\ WorkItemsHeader(Processed[i].lines) # 0
    /\ feedback_counts # << >>
    /\ DOMAIN feedback_tasks # {}

(***************************************************************************)
(* C6: the call always returns, and the log has exactly one entry per      *)
(* consumed file, the i-th naming the i-th file, each a success, a warning *)
(* or an error; files after a failed one are processed, and a file without *)
(* a Work Items section gets no entry for that.                            *)
(***************************************************************************)
C6_OneEntryPerFile ==
    /\ Len(processing_results) = idx
    /\ \A i \in 1..Len(processing_results) :
            /\ i <= Len(file_objects)
            /\ processing_results[i].name = file_objects[i].name
            /\ processing_results[i].kind \in {"success", "warning", "error"}
    /\ Returned => idx = Len(file_objects)
    /\ Returned \/ (pc = "loop" /\ idx < Len(file_objects))   \* another iteration
                \/ (pc = "loop" /\ idx = Len(file_objects))   \* or the return

\* Three files: an undecodable one, one whose read_csv fails, then one
\* with no Work Items section that is processed.
C6_Witness ==
    /\ Returned
    /\ Len(processing_results) = 3
    /\ ~file_objects[1].decodable
    /\ processing_results[1].kind = "error"
    /\ file_objects[2].decodable
    /\ HasPrimaryMarker(file_objects[2])
    /\ PrimaryTable(file_objects[2]).error
    /\ processing_results[2].kind = "error"
    /\ processing_results[3].kind = "success"
    /\ WorkItemsHeader(file_objects[3].lines) = 0

(***************************************************************************)
(* C7: the task id of a description is the Work Item Id of the last Work   *)
(* Items row, in processing order, that has both values present for it;    *)
(* a description with no such row has no task id.                          *)
(***************************************************************************)
WorkItemsTable(f) == read_csv(f.lines, WorkItemsHeader(f.lines))

\* The loop reads the Work Items rows of f.
WorkItemsRead(f) ==
    /\ PrimaryRead(f)
    /\ WorkItemsHeader(f.lines) # 0
    /\ ~WorkItemsTable(f).error
    /\ HasColumn(WorkItemsTable(f), "Feedback Description")
    /\ HasColumn(WorkItemsTable(f), "Work Item Id")

\* <<description, id>> of the rows r.. of wdf with both values present.
RECURSIVE PairsFrom(_, _)
PairsFrom(wdf, r) ==
    IF r > Len(wdf.rows) THEN << >>
    ELSE (IF /\ ~isna(CellText(wdf, r, "Feedback Description"))
             /\ ~isna(CellText(wdf, r, "Work Item Id"))
          THEN <<<<CellValue(wdf, r, "Feedback Description"),
                   CellValue(wdf, r, "Work Item Id")>>>>
          ELSE << >>)
         \o PairsFrom(wdf, r + 1)

RECURSIVE Assignments(_)
Assignments(files) ==
    IF files = << >> THEN << >>
    ELSE (IF WorkItemsRead(Head(files))
          THEN PairsFrom(WorkItemsTable(Head(files)), 1) ELSE << >>)
         \o Assignments(Tail(files))

LastId(pairs, d) ==
    LET at == {i \in 1..Len(pairs) : pairs[i][1] = d}
    IN  IF at = {} THEN None
        ELSE pairs[CHOOSE i \in at : \A j \in at : j <= i][2]

C7_LastWriteWins ==
    LET pairs == Assignments(Processed)
    IN  /\ pc = "loop" =>
            /\ DOMAIN feedback_tasks = {pairs[i][1] : i \in 1..Len(pairs)}
            /\ \A d \in DOMAIN feedback_tasks : feedback_tasks[d] = LastId(pairs, d)
        /\ (Returned /\ feedback_counts # << >>) =>
                \A i \in 1..Len(result) : result[i][2] = LastId(pairs, result[i][1])

\* A returned record whose description was given different ids by rows of
\* two files, next to a record without a task id.
C7_Witness ==
    /\ Returned
    /\ LET pairs == Assignments(Processed)
       IN  \E i \in 1..Len(result) :
               /\ result[i][2] # None
               /\ Cardinality({pairs[k][2] : k \in {n \in 1..Len(pairs) :
                                    pairs[n][1] = result[i][1]}}) >= 2
               /\ Cardinality({k \in 1..idx :
                        /\ WorkItemsRead(Processed[k])
                        /\ \E n \in 1..Len(PairsFrom(WorkItemsTable(Processed[k]), 1)) :
                              PairsFrom(WorkItemsTable(Processed[k]), 1)[n][1]
                                  = result[i][1]}) >= 2
    /\ \E i \in 1..Len(result) : result[i][2] = None

(***************************************************************************)
(* C8.  The step of the loop on file f.                                    *)
(***************************************************************************)
Consumes(f) == pc = "loop" /\ idx' = idx + 1 /\ f = file_objects[idx + 1]

\* f has the Work Items marker, but its primary-table steps end in a skip:
\* no primary marker, or no Description/Votes column.
WorkItemsButSkipped(f) ==
    /\ f.decodable
    /\ WorkItemsHeader(f.lines) # 0
    /\ \/ HeaderIndex(f.lines) = 0
       \/ ~PrimaryTable(f).error /\ ~HasBothColumns(f)

\* The task ids the Work Items rows of f set, on top of tasks.
RECURSIVE Overwritten(_, _, _)
Overwritten(tasks, pairs, n) ==
    IF n > Len(pairs) THEN tasks
    ELSE Overwritten([k \in (DOMAIN tasks) \cup {pairs[n][1]} |->
                        IF k = pairs[n][1] THEN pairs[n][2] ELSE tasks[k]],
                     pairs, n + 1)

(***************************************************************************)
(* C8 as stated: the Work Items section is processed whether or not the    *)
(* primary-table steps succeeded, so a file with the Work Items marker and *)
(* no primary marker (or no Description/Votes column) sets the task id of  *)
(* each of its rows that has both values.                                  *)
(***************************************************************************)
C8_WorkItemsIndependent ==
    [][\A f \in Catalog :
          (Consumes(f) /\ WorkItemsButSkipped(f) /\ ~WorkItemsTable(f).error) =>
              feedback_tasks' =
                  Overwritten(feedback_tasks, PairsFrom(WorkItemsTable(f), 1), 1)]_vars

\* The primary table of f was read, f has the Work Items marker, and the
\* read_csv of the section raises.
WorkItemsReadFails(f) ==
    /\ PrimaryRead(f)
    /\ WorkItemsHeader(f.lines) # 0
    /\ WorkItemsTable(f).error

(***************************************************************************)
(* C8, amended: the Work Items section is processed only after the         *)
(* primary-table steps succeeded.  A file with the Work Items marker and   *)
(* no primary marker (or no Description/Votes column) sets no task id.  A  *)
(* file whose primary table was read and whose Work Items section read_csv *)
(* reads without raising, with both of its columns, sets the task id of    *)
(* each Work Items row that has both values; when that read_csv raises,    *)
(* the file sets no task id.  No other file sets a task id.                *)
(***************************************************************************)
C8_WorkItemsAfterPrimary ==
    [][\A f \in Catalog :
          /\ (Consumes(f) /\ WorkItemsButSkipped(f)) =>
                feedback_tasks' = feedback_tasks
          /\ (Consumes(f) /\ WorkItemsRead(f)) =>
                feedback_tasks' =
                    Overwritten(feedback_tasks, PairsFrom(WorkItemsTable(f), 1), 1)
          /\ (Consumes(f) /\ WorkItemsReadFails(f)) =>
                feedback_tasks' = feedback_tasks
          /\ (Consumes(f) /\ ~WorkItemsRead(f)) =>
                feedback_tasks' = feedback_tasks]_vars

\* Both kinds of skipped file were consumed, their Work Items rows name
\* descriptions, and one of those descriptions has no task id; a file whose
\* section was read did set one.  (The file whose section fails to read is
\* the one of C10_Witness.)
C8_Witness ==
    /\ \E i \in 1..idx : /\ WorkItemsButSkipped(Processed[i])
                         /\ HeaderIndex(Processed[i].lines) = 0
                         /\ PairsFrom(WorkItemsTable(Processed[i]), 1) # << >>
    /\ \E i \in 1..idx :
            /\ WorkItemsButSkipped(Processed[i])
            /\ HeaderIndex(Processed[i].lines) # 0
            /\ \E n \in 1..Len(PairsFrom(WorkItemsTable(Processed[i]), 1)) :
                    PairsFrom(WorkItemsTable(Processed[i]), 1)[n][1]
                        \notin DOMAIN feedback_tasks
    /\ \E i \in 1..idx : WorkItemsRead(Processed[i])
    /\ DOMAIN feedback_tasks # {}

(***************************************************************************)
(* C9.  Rows of the primary table of a file, by their cells.               *)
(***************************************************************************)
Present(df, r, name) == CellText(df, r, name) \notin NAValues

\* Rows of df for description d with both cells present.
RowsFor(df, d) ==
    {r \in 1..Len(df.rows) :
        /\ Present(df, r, "Description")
        /\ Present(df, r, "Votes")
        /\ CellValue(df, r, "Description") = d}

\* Descriptions of rows of df with both cells present.
Described(df) ==
    {CellValue(df, r, "Description") :
        r \in {k \in 1..Len(df.rows) : /\ Present(df, k, "Description")
                                       /\ Present(df, k, "Votes")}}

ReadTables == {PrimaryTable(Processed[i]) :
                    i \in {k \in 1..idx : PrimaryRead(Processed[k])}}

\* A row dropped for a missing or empty cell creates no entry; a row with
\* a present, non-numeric Votes cell is kept and adds 0.
RowsDroppedOrZeroFilled ==
    /\ Accumulated = UNION {Described(df) : df \in ReadTables}
    /\ \A d \in Accumulated :
            (\A df \in ReadTables : \A r \in RowsFor(df, d) :
                    CellText(df, r, "Votes") \notin DOMAIN NumOf)
                => Total(feedback_counts, d) = 0

\* A row after the first data row with more fields than the table read from
\* line h is wide.
HasOverlongRow(lines, h) ==
    LET body == SelectSeq(SubSeq(lines, h, Len(lines)), NonBlank)
    IN  \E k \in 3..Len(body) :
            Len(body[k]) > Len(body[1]) /\ Len(body[k]) > Len(body[2])

(***************************************************************************)
(* C9 as stated: a row with a missing or empty Description or Votes cell   *)
(* is dropped and creates no entry, a row with a present non-numeric Votes *)
(* cell is kept and adds 0 (creating the entry with total 0 if unseen),    *)
(* and no row content turns the outcome of the file into an error.         *)
(***************************************************************************)
C9_RowsNeverFail ==
    pc = "loop" =>
        /\ RowsDroppedOrZeroFilled
        /\ \A i \in 1..idx :
                HasPrimaryMarker(Processed[i]) =>
                    processing_results[i].kind # "error"

(***************************************************************************)
(* C9, amended: a row with a missing or empty Description or Votes cell is *)
(* dropped and creates no entry, a row with a present non-numeric Votes    *)
(* cell is kept and adds 0 (creating the entry with total 0 if unseen);    *)
(* such cells never turn the outcome into an error, but a row after the    *)
(* first data row with more fields than the table being read does: the     *)
(* outcome of a decodable file is an error exactly when one of its two     *)
(* tables has such a row.                                                  *)
(***************************************************************************)
C9_OnlyOverlongRowsFail ==
    pc = "loop" =>
        /\ RowsDroppedOrZeroFilled
        /\ \A i \in 1..idx :
                LET f == Processed[i]
                IN  HasPrimaryMarker(f) =>
                        (processing_results[i].kind = "error" <=>
                            \/ HasOverlongRow(f.lines, HeaderIndex(f.lines))
                            \/ /\ HasBothColumns(f)
                               /\ WorkItemsHeader(f.lines) # 0
                               /\ HasOverlongRow(f.lines, WorkItemsHeader(f.lines)))

\* A processed file with dropped rows and a zero-filled row whose
\* description has total 0, next to a file that failed on an overlong row.
C9_Witness ==
    /\ pc = "loop"
    /\ \E i \in 1..idx :
            /\ PrimaryRead(Processed[i])
            /\ processing_results[i].kind = "success"
            /\ LET df == PrimaryTable(Processed[i])
               IN  /\ \E r \in 1..Len(df.rows) :
                        Present(df, r, "Description") /\ ~Present(df, r, "Votes")
                   /\ \E r \in 1..Len(df.rows) : ~Present(df, r, "Description")
                   /\ \E r \in 1..Len(df.rows) :
                        /\ Present(df, r, "Description")
                        /\ Present(df, r, "Votes")
                        /\ CellText(df, r, "Votes") \notin DOMAIN NumOf
                        /\ Total(feedback_counts, CellValue(df, r, "Description")) = 0
    /\ \E i \in 1..idx :
            /\ HasPrimaryMarker(Processed[i])
            /\ processing_results[i].kind = "error"

(***************************************************************************)
(* C10: processing a file is not atomic.  When the primary table of a file *)
(* was accumulated and the read of its Work Items section then fails, the  *)
(* outcome of the file is an error, yet its votes stay in the totals and   *)
(* show in the returned list (its task ids cannot: none is set before the  *)
(* section is read).                                                       *)
(***************************************************************************)
FailsInWorkItems(f) ==
    /\ PrimaryRead(f)
    /\ WorkItemsHeader(f.lines) # 0
    /\ HasOverlongRow(f.lines, WorkItemsHeader(f.lines))

C10_PartialEffectsKept ==
    \A i \in 1..idx :
        /\ (pc = "loop" /\ FailsInWorkItems(Processed[i])) =>
                processing_results[i].kind = "error"
        /\ (processing_results[i].kind = "error" /\ PrimaryRead(Processed[i])) =>
                \A d \in Described(PrimaryTable(Processed[i])) :
                    /\ d \in Accumulated
                    /\ Total(feedback_counts, d) >= FileSum(Processed[i], d)
                    /\ (/\ Returned
                        /\ min_votes <= Total(feedback_counts, d)
                        /\ Total(feedback_counts, d) <= max_votes) =>
                            \E k \in 1..Len(result) :
                                /\ result[k][1] = d
                                /\ result[k][3] = Total(feedback_counts, d)

\* A returned record whose votes all come from a file logged as an error.
C10_Witness ==
    /\ Returned
    /\ \E i \in 1..idx :
            /\ FailsInWorkItems(Processed[i])
            /\ processing_results[i].kind = "error"
            /\ \E k \in 1..Len(result) :
                    /\ result[k][3] > 0
                    /\ result[k][3] = FileSum(Processed[i], result[k][1])

====
